---- MODULE Spec2Model ----
(***************************************************************************)
(* Model of generate_user_report.py: the transition classifier             *)
(* (get_new_account_requests, get_new_accounts_accepted and the four       *)
(* training / non-training partitions), the snapshot store and the main    *)
(* run.                                                                    *)
(*                                                                         *)
(* A Python dict is modelled with its insertion order where the code       *)
(* iterates it into an ordered result: snapshot["users"] is a record       *)
(* [order, info], order being the key sequence and info the mapping.  A    *)
(* user's "groups" dict is only scanned for the existence of a match, so   *)
(* it is a plain function.  A user record is a function whose domain is    *)
(* the set of keys the record has, so that `"join_date" in u_info` is      *)
(* `"join_date" \in DOMAIN u_info`.                                        *)
(*                                                                         *)
(* A date string in DATE_FMT is the pair <<day, tick-of-day>>; strptime    *)
(* turns it into a point on the time line and strftime is its inverse.     *)
(***************************************************************************)
EXTENDS Integers, Sequences, FiniteSets, TLC

\* ---- bounds of the model -------------------------------------------------
MaxDay == 1
TicksPerDay == 2
MaxListLen == 2

\* ---- names ----------------------------------------------------------------
Users == {"jim_halpert", "pam_beesly"}
ROOT == "root"
ROOT_OSG == "root.osg"
TRAINING2021 == "root.osg.training2021"
NON_TRAINING == "root.osg.non_training"
Groups == {ROOT_OSG, TRAINING2021, NON_TRAINING}

NONMEMBER == "nonmember"
PENDING == "pending"
ACTIVE == "active"
ADMIN == "admin"
DISABLED == "disabled"
GroupMemberState == {NONMEMBER, PENDING, ACTIVE, ADMIN, DISABLED}

\* ---- outcomes of a call: a returned value or an uncaught exception --------
Return(v) == [exc |-> "none", val |-> v]
Raise(e) == [exc |-> e, val |-> <<>>]

\* ---- dates ------------------------------------------------------------------
strptime(s) == s[1] * TicksPerDay + s[2]
strftime(t) == <<t \div TicksPerDay, t % TicksPerDay>>
DateStrings == {strftime(t) : t \in 0..((MaxDay + 1) * TicksPerDay - 1)}

\* ---- get_new_account_requests ---------------------------------------------
\* InWindow with a closed lower end
InWindowClosedLower(start_date, join_date, end_date) ==
    start_date <= join_date /\ join_date <= end_date

\* line 219: the open-lower, closed-upper window test
InWindow(start_date, join_date, end_date) ==
    start_date < join_date /\ join_date <= end_date

RECURSIVE RequestsLoop(_, _, _, _, _)
RequestsLoop(keys, info, start_date, end_date, accounts) ==
    IF keys = <<>> THEN accounts
    ELSE LET u_name == Head(keys)
             u_info == info[u_name]
         IN IF "join_date" \in DOMAIN u_info
            THEN IF InWindow(start_date, strptime(u_info["join_date"]), end_date)
                 THEN RequestsLoop(Tail(keys), info, start_date, end_date,
                                   Append(accounts, u_name))
                 ELSE RequestsLoop(Tail(keys), info, start_date, end_date,
                                   accounts)
            ELSE RequestsLoop(Tail(keys), info, start_date, end_date, accounts)

get_new_account_requests(prev, curr) ==
    Return(RequestsLoop(curr.users.order, curr.users.info,
                        strptime(prev.date), strptime(curr.date), <<>>))

\* ---- get_new_accounts_accepted ----------------------------------------------
\* dict lookups curr_snapshot["users"][u_name]["groups"]["root.osg"]: each
\* subscript raises KeyError when its key is missing
HasRootOsgIn(users, u_name) ==
    /\ u_name \in DOMAIN users.info
    /\ "groups" \in DOMAIN users.info[u_name]
    /\ ROOT_OSG \in DOMAIN users.info[u_name]["groups"]

\* AcceptedStep taking any state other than pending in curr for an acceptance
AcceptedStepAnyChange(u_info, curr_users, u_name) ==
    IF "groups" \notin DOMAIN u_info THEN "KeyError"
    ELSE IF ROOT_OSG \in DOMAIN u_info["groups"]
    THEN IF u_info["groups"][ROOT_OSG] = PENDING
         THEN IF ~HasRootOsgIn(curr_users, u_name) THEN "KeyError"
              ELSE IF curr_users.info[u_name]["groups"][ROOT_OSG] # PENDING
                   THEN "append" ELSE "skip"
         ELSE "skip"
    ELSE "warn"

\* AcceptedStep passing over a user it cannot look up in curr
AcceptedStepLenient(u_info, curr_users, u_name) ==
    IF "groups" \notin DOMAIN u_info THEN "KeyError"
    ELSE IF ROOT_OSG \in DOMAIN u_info["groups"]
    THEN IF u_info["groups"][ROOT_OSG] = PENDING
         THEN IF ~HasRootOsgIn(curr_users, u_name) THEN "skip"
              ELSE IF curr_users.info[u_name]["groups"][ROOT_OSG] = ACTIVE
                   THEN "append" ELSE "skip"
         ELSE "skip"
    ELSE "warn"

\* AcceptedStep without the test of line 337: the lookup of root.osg in the
\* groups of prev raises
AcceptedStepUnguarded(u_info, curr_users, u_name) ==
    IF "groups" \notin DOMAIN u_info THEN "KeyError"
    ELSE IF ROOT_OSG \in DOMAIN u_info["groups"]
    THEN IF u_info["groups"][ROOT_OSG] = PENDING
         THEN IF ~HasRootOsgIn(curr_users, u_name) THEN "KeyError"
              ELSE IF curr_users.info[u_name]["groups"][ROOT_OSG] = ACTIVE
                   THEN "append" ELSE "skip"
         ELSE "skip"
    ELSE "KeyError"

\* One iteration of the loop of lines 334-343 for the user u_name of prev with
\* record u_info.  The outcome is "append" (line 341), "skip", "warn" (line
\* 343) or "KeyError".  In `a == PENDING and b == ACTIVE` the right operand,
\* and with it the lookup in curr, is evaluated only when the left one holds.
AcceptedStep(u_info, curr_users, u_name) ==
    IF "groups" \notin DOMAIN u_info THEN "KeyError"
    ELSE IF ROOT_OSG \in DOMAIN u_info["groups"]
    THEN IF u_info["groups"][ROOT_OSG] = PENDING
         THEN IF ~HasRootOsgIn(curr_users, u_name) THEN "KeyError"
              ELSE IF curr_users.info[u_name]["groups"][ROOT_OSG] = ACTIVE
                   THEN "append" ELSE "skip"
         ELSE "skip"
    ELSE "warn"

\* The loop of lines 334-343.  acc is [accounts, warned]: the list built so
\* far and the users a warning was logged for.  The result is the outcome of
\* the call with the warnings logged up to the return or the raise.
RECURSIVE AcceptedLoop(_, _, _, _)
AcceptedLoop(keys, prev_users, curr_users, acc) ==
    IF keys = <<>> THEN [out |-> Return(acc.accounts), warned |-> acc.warned]
    ELSE LET u_name == Head(keys)
             t == AcceptedStep(prev_users.info[u_name], curr_users, u_name)
         IN CASE t = "KeyError" ->
                   [out |-> Raise("KeyError"), warned |-> acc.warned]
              [] t = "append" ->
                   AcceptedLoop(Tail(keys), prev_users, curr_users,
                       [acc EXCEPT !.accounts = Append(@, u_name)])
              [] t = "warn" ->
                   AcceptedLoop(Tail(keys), prev_users, curr_users,
                       [acc EXCEPT !.warned = Append(@, u_name)])
              [] OTHER ->
                   AcceptedLoop(Tail(keys), prev_users, curr_users, acc)

get_new_accounts_accepted(prev, curr) ==
    AcceptedLoop(prev.users.order, prev.users, curr.users,
                 [accounts |-> <<>>, warned |-> <<>>])

\* ---- the partitions ---------------------------------------------------------
\* {GroupMemberState.ACTIVE.value, GroupMemberState.PENDING.value}
AddedStates == {ACTIVE, PENDING}

\* curr_snapshot["users"][user]["groups"] can be looked up
HasGroupsIn(users, user) ==
    /\ user \in DOMAIN users.info
    /\ "groups" \in DOMAIN users.info[user]

\* InTrainingGroup counting active memberships only
InTrainingGroupActiveOnly(user_groups, training_projects) ==
    \E group_name \in DOMAIN user_groups :
        /\ group_name \in training_projects
        /\ user_groups[group_name] = ACTIVE

\* lines 254-259 / 380-385: the scan of one user's groups, which stops at the
\* first match
InTrainingGroup(user_groups, training_projects) ==
    \E group_name \in DOMAIN user_groups :
        /\ group_name \in training_projects
        /\ user_groups[group_name] \in AddedStates

\* InNonTrainingGroup counting admin memberships too
InNonTrainingGroupAdmin(user_groups, exclude) ==
    \E group_name \in DOMAIN user_groups :
        /\ group_name \notin exclude
        /\ user_groups[group_name] \in AddedStates \cup {ADMIN}

\* lines 299-304 / 424-429, exclude being the set after exclude.update
InNonTrainingGroup(user_groups, exclude) ==
    \E group_name \in DOMAIN user_groups :
        /\ group_name \notin exclude
        /\ user_groups[group_name] \in AddedStates

\* lines 251-259 / 377-385
RECURSIVE TrainingLoop(_, _, _, _)
TrainingLoop(list, curr_users, training_projects, accounts) ==
    IF list = <<>> THEN Return(accounts)
    ELSE LET user == Head(list)
         IN IF ~HasGroupsIn(curr_users, user) THEN Raise("KeyError")
            ELSE IF InTrainingGroup(curr_users.info[user]["groups"],
                                    training_projects)
            THEN TrainingLoop(Tail(list), curr_users, training_projects,
                              Append(accounts, user))
            ELSE TrainingLoop(Tail(list), curr_users, training_projects,
                              accounts)

\* lines 296-304 / 421-429
RECURSIVE NonTrainingLoop(_, _, _, _)
NonTrainingLoop(list, curr_users, exclude, accounts) ==
    IF list = <<>> THEN Return(accounts)
    ELSE LET user == Head(list)
         IN IF ~HasGroupsIn(curr_users, user) THEN Raise("KeyError")
            ELSE IF InNonTrainingGroup(curr_users.info[user]["groups"], exclude)
            THEN NonTrainingLoop(Tail(list), curr_users, exclude,
                                 Append(accounts, user))
            ELSE NonTrainingLoop(Tail(list), curr_users, exclude, accounts)

\* ExcludeUpdate leaving the training projects out
ExcludeUpdateForgetsTraining(exclude, training_projects) == exclude

\* exclude.update(training_projects), lines 293 / 418
ExcludeUpdate(exclude, training_projects) == exclude \cup training_projects

\* the default of the parameter `exclude`, evaluated once when the function
\* is defined (lines 274 / 399)
ExcludeDefault == {ROOT, ROOT_OSG}

\* ---- snapshots the operations are applied to -------------------------------
\* the sequences without repetition that enumerate the set S
Perms(S) ==
    {o \in [1..Cardinality(S) -> S] : \A i, j \in 1..Cardinality(S) :
                                          o[i] = o[j] => i = j}

\* the dicts user_name -> record with records drawn from Records
UsersDicts(Records) ==
    UNION {{[order |-> o, info |-> f] : o \in Perms(D), f \in [D -> Records]} :
           D \in SUBSET Users}

EmptyUsers == [order |-> <<>>, info |-> <<>>]

\* every groups dict over the groups of Gs with states of States
GroupMapsInto(Gs, States) == UNION {[D -> States] : D \in SUBSET Gs}

GroupMaps(Gs) == GroupMapsInto(Gs, GroupMemberState)

\* a user record as get_snapshot builds it (lines 74, 81, 89-91): osg_state
\* and groups["root.osg"] both come from the members of root.osg
UserRecord(groups) ==
    IF ROOT_OSG \in DOMAIN groups
    THEN [osg_state |-> groups[ROOT_OSG], groups |-> groups]
    ELSE [groups |-> groups]

UserRecordJoined(groups, join_date) ==
    IF ROOT_OSG \in DOMAIN groups
    THEN [osg_state |-> groups[ROOT_OSG], join_date |-> join_date,
          groups |-> groups]
    ELSE [join_date |-> join_date, groups |-> groups]

\* ---- state ------------------------------------------------------------------
VARIABLES
    prev_snapshot,      \* the older snapshot handed to the classifier
    curr_snapshot,      \* the newer snapshot handed to the classifier
    user_list,          \* new_act_reqs / new_acts_accepted of a partition call
    training_projects,  \* the training set of the last classifier call
    exclude_default,    \* the default `exclude` object of each non-training
                        \* function, which lives as long as the process
    call,               \* the last classifier call and its outcome
    seen,               \* an earlier classifier call, kept for comparison
    pc,                 \* where the main program is
    now,                \* the wall clock, in ticks since day 0, UTC
    tz,                 \* the host's offset from UTC, in ticks
    disk,               \* ./snapshots: file key (YYYYMMDD day) -> document
    foreign,            \* ./snapshots: the files get_snapshot did not write,
                        \* file name -> document
    run,                \* what the current run has done so far
    report              \* the six lists main computes

runvars == <<pc, now, tz, disk, foreign, run, report>>

vars == <<prev_snapshot, curr_snapshot, user_list, training_projects,
          exclude_default, call, seen, pc, now, tz, disk, foreign, run,
          report>>

NoCall == [op |-> "none", explicit |-> FALSE, exclude |-> {},
           training |-> {}, out |-> Return(<<>>), warned |-> <<>>]

FreshDefaults == [requests |-> ExcludeDefault, accepted |-> ExcludeDefault]

NoSnapshot == [date |-> strftime(0), users |-> EmptyUsers]

NoReport == [nar |-> <<>>, nar_tr |-> <<>>, nar_ntr |-> <<>>,
             naa |-> <<>>, naa_tr |-> <<>>, naa_ntr |-> <<>>]

\* exit_status -1: the process has not exited
NoRun == [had_prior |-> FALSE, saved |-> FALSE, sent |-> FALSE,
          exc |-> "none", exit_status |-> -1]

\* the main program is not running
RunIdle ==
    /\ pc = "idle"
    /\ now = 0
    /\ tz = 0
    /\ disk = <<>>
    /\ foreign = <<>>
    /\ run = NoRun
    /\ report = NoReport

\* ---- the four partition functions --------------------------------------------
get_new_account_requests_in_training_group(new_act_reqs, curr, training) ==
    TrainingLoop(new_act_reqs, curr.users, training, <<>>)

get_new_account_requests_in_non_training_group(new_act_reqs, curr, training, exclude) ==
    NonTrainingLoop(new_act_reqs, curr.users,
                    ExcludeUpdate(exclude, training), <<>>)

get_new_accounts_accepted_in_training_group(new_acts_accepted, curr, training) ==
    TrainingLoop(new_acts_accepted, curr.users, training, <<>>)

get_new_accounts_accepted_in_non_training_group(new_acts_accepted, curr, training, exclude) ==
    NonTrainingLoop(new_acts_accepted, curr.users,
                    ExcludeUpdate(exclude, training), <<>>)

\* ---- classifier calls --------------------------------------------------------
\* the ways a caller passes `exclude`: left out, or a set of its own
ExcludeArgs == {{ROOT, ROOT_OSG}, {}, {NON_TRAINING}}

ExcludeChoices ==
    {[explicit |-> FALSE, set |-> {}]}
        \cup {[explicit |-> TRUE, set |-> S] : S \in ExcludeArgs}

TrainingSets == {{}, {TRAINING2021}, {TRAINING2021, NON_TRAINING}}

NewAccountRequests ==
    /\ call' = [op |-> "requests", explicit |-> FALSE, exclude |-> {},
                training |-> {},
                out |-> get_new_account_requests(prev_snapshot, curr_snapshot),
                warned |-> <<>>]
    /\ UNCHANGED <<prev_snapshot, curr_snapshot, user_list, training_projects,
                   exclude_default, seen, runvars>>

NewAccountsAccepted ==
    /\ LET r == get_new_accounts_accepted(prev_snapshot, curr_snapshot)
       IN call' = [op |-> "accepted", explicit |-> FALSE, exclude |-> {},
                   training |-> {}, out |-> r.out, warned |-> r.warned]
    /\ UNCHANGED <<prev_snapshot, curr_snapshot, user_list, training_projects,
                   exclude_default, seen, runvars>>

NewAccountRequestsInTrainingGroup(training) ==
    /\ call' = [op |-> "requests_training", explicit |-> FALSE,
                exclude |-> {}, training |-> training,
                out |-> get_new_account_requests_in_training_group(
                            user_list, curr_snapshot, training),
                warned |-> <<>>]
    /\ training_projects' = training
    /\ UNCHANGED <<prev_snapshot, curr_snapshot, user_list, exclude_default,
                   seen, runvars>>

NewAccountsAcceptedInTrainingGroup(training) ==
    /\ call' = [op |-> "accepted_training", explicit |-> FALSE,
                exclude |-> {}, training |-> training,
                out |-> get_new_accounts_accepted_in_training_group(
                            user_list, curr_snapshot, training),
                warned |-> <<>>]
    /\ training_projects' = training
    /\ UNCHANGED <<prev_snapshot, curr_snapshot, user_list, exclude_default,
                   seen, runvars>>

\* call.exclude is the set the function starts from: the caller's set, or the
\* default object as the earlier calls of this process left it
NewAccountRequestsInNonTrainingGroup(training, e) ==
    LET exclude == IF e.explicit THEN e.set ELSE exclude_default.requests
    IN /\ call' = [op |-> "requests_non_training", explicit |-> e.explicit,
                   exclude |-> exclude, training |-> training,
                   out |-> get_new_account_requests_in_non_training_group(
                               user_list, curr_snapshot, training, exclude),
                   warned |-> <<>>]
       /\ exclude_default' =
              IF e.explicit THEN exclude_default
              ELSE [exclude_default EXCEPT
                        !.requests = ExcludeUpdate(exclude, training)]
       /\ training_projects' = training
       /\ UNCHANGED <<prev_snapshot, curr_snapshot, user_list, seen, runvars>>

NewAccountsAcceptedInNonTrainingGroup(training, e) ==
    LET exclude == IF e.explicit THEN e.set ELSE exclude_default.accepted
    IN /\ call' = [op |-> "accepted_non_training", explicit |-> e.explicit,
                   exclude |-> exclude, training |-> training,
                   out |-> get_new_accounts_accepted_in_non_training_group(
                               user_list, curr_snapshot, training, exclude),
                   warned |-> <<>>]
       /\ exclude_default' =
              IF e.explicit THEN exclude_default
              ELSE [exclude_default EXCEPT
                        !.accepted = ExcludeUpdate(exclude, training)]
       /\ training_projects' = training
       /\ UNCHANGED <<prev_snapshot, curr_snapshot, user_list, seen, runvars>>

\* ---- Spec: the classifier applied to bounded families of snapshots ---------
UserLists == UNION {[1..n -> Users] : n \in 0..MaxListLen}

\* curr varies in its users' join dates, both snapshots in their dates
InitRequests ==
    /\ prev_snapshot \in {[date |-> d, users |-> EmptyUsers] : d \in DateStrings}
    /\ curr_snapshot \in
           {[date |-> d, users |-> u] :
               d \in DateStrings,
               u \in UsersDicts(
                   {UserRecord(ROOT_OSG :> ACTIVE)} \cup
                   {UserRecordJoined(ROOT_OSG :> ACTIVE, j) : j \in DateStrings})}
    /\ user_list = <<>>
    /\ training_projects = {TRAINING2021}

\* both snapshots vary in who is there and in the root.osg state
InitAccepted ==
    /\ prev_snapshot \in
           {[date |-> strftime(0), users |-> u] :
               u \in UsersDicts({UserRecord(g) : g \in GroupMaps({ROOT_OSG})})}
    /\ curr_snapshot \in
           {[date |-> strftime(1), users |-> u] :
               u \in UsersDicts({UserRecord(g) : g \in GroupMaps({ROOT_OSG})})}
    /\ user_list = <<>>
    /\ training_projects = {TRAINING2021}

\* curr varies in the groups of jim_halpert, next to three kinds of pam_beesly
OtherMaps ==
    {(ROOT_OSG :> ACTIVE),
     (ROOT_OSG :> ACTIVE) @@ (TRAINING2021 :> PENDING),
     (ROOT_OSG :> ACTIVE) @@ (NON_TRAINING :> ACTIVE)}

InitPartition ==
    /\ prev_snapshot = [date |-> strftime(0), users |-> EmptyUsers]
    /\ curr_snapshot \in
           {[date |-> strftime(1),
             users |-> [order |-> <<"jim_halpert", "pam_beesly">>,
                        info |-> ("jim_halpert" :> UserRecord(g))
                                    @@ ("pam_beesly" :> UserRecord(h))]] :
               g \in GroupMaps(Groups), h \in OtherMaps}
    /\ user_list \in UserLists
    /\ training_projects \in TrainingSets

Init ==
    /\ InitRequests \/ InitAccepted \/ InitPartition
    /\ exclude_default = FreshDefaults
    /\ call = NoCall
    /\ seen = NoCall
    /\ RunIdle

Next ==
    \/ NewAccountRequests
    \/ NewAccountsAccepted
    \/ NewAccountRequestsInTrainingGroup(training_projects)
    \/ NewAccountsAcceptedInTrainingGroup(training_projects)
    \/ \E e \in ExcludeChoices :
           NewAccountRequestsInNonTrainingGroup(training_projects, e)
    \/ \E e \in ExcludeChoices :
           NewAccountsAcceptedInNonTrainingGroup(training_projects, e)

Spec == Init /\ [][Next]_vars

\* ---- get_snapshot: the builder (lines 69-99) ---------------------------------
\* snapshot[user][key] = value on the defaultdict(dict) of line 69: a user
\* that is not a key yet is inserted on first access
SetField(d, user, key, value) ==
    IF user \in DOMAIN d.info
    THEN [d EXCEPT !.info[user] = (key :> value) @@ @]
    ELSE [order |-> Append(d.order, user),
          info |-> (user :> (key :> value)) @@ d.info]

\* lines 88-91
SetGroup(d, user, group_name, state) ==
    LET groups == IF user \in DOMAIN d.info /\ "groups" \in DOMAIN d.info[user]
                  THEN d.info[user]["groups"] ELSE <<>>
    IN SetField(d, user, "groups", (group_name :> state) @@ groups)

\* lines 73-74
RECURSIVE OsgStatesLoop(_, _)
OsgStatesLoop(osg_states, d) ==
    IF osg_states = <<>> THEN d
    ELSE OsgStatesLoop(Tail(osg_states),
             SetField(d, Head(osg_states).user_name, "osg_state",
                      Head(osg_states).state))

\* str.lower on the kinds the directory uses
Lower(kind) ==
    IF kind = "User" THEN "user" ELSE IF kind = "Group" THEN "group" ELSE kind

\* HasJoinDate without the test that the user is in the snapshot
HasJoinDateAnyUser(u, d) == Lower(u.kind) = "user"

\* line 79
HasJoinDate(u, d) == Lower(u.kind) = "user" /\ u.unix_name \in DOMAIN d.info

\* lines 78-81
RECURSIVE JoinDatesLoop(_, _)
JoinDatesLoop(users, d) ==
    IF users = <<>> THEN d
    ELSE LET u == Head(users)
         IN IF HasJoinDate(u, d)
            THEN JoinDatesLoop(Tail(users),
                     SetField(d, u.unix_name, "join_date", u.join_date))
            ELSE JoinDatesLoop(Tail(users), d)

\* lines 87-91
RECURSIVE MembershipsLoop(_, _, _)
MembershipsLoop(memberships, group_name, d) ==
    IF memberships = <<>> THEN d
    ELSE MembershipsLoop(Tail(memberships), group_name,
             SetGroup(d, Head(memberships).user_name, group_name,
                      Head(memberships).state))

\* lines 85-91; api.members is get_group_members
RECURSIVE GroupsLoop(_, _, _)
GroupsLoop(groups, api, d) ==
    IF groups = <<>> THEN d
    ELSE GroupsLoop(Tail(groups), api,
             MembershipsLoop(api.members[Head(groups)], Head(groups), d))

\* lines 69-99 for the answers api of the directory service, at time t
BuildSnapshot(api, t) ==
    [date |-> strftime(t),
     users |-> GroupsLoop(api.groups, api,
                   JoinDatesLoop(api.users,
                       OsgStatesLoop(api.members[ROOT_OSG], EmptyUsers)))]

\* line 105: datetime.now() is the host's local time, and the file is named
\* by its day
SnapshotFileKey(t) == (t + tz) \div TicksPerDay

\* lines 105-109: open("w") creates the file or truncates the one there
WriteFile(files, key, document) ==
    [k \in DOMAIN files \cup {key} |-> IF k = key THEN document ELSE files[k]]

\* ---- get_latest_snapshot_on_disk (lines 115-138) ----------------------------
\* The scan keeps the first file, in the order iterdir yields them, whose date
\* is greater than every date before it: a file of maximal date, and any of
\* them when several share it.
LatestSnapshotFiles(files) ==
    {f \in DOMAIN files :
        \A g \in DOMAIN files :
            strptime(files[g].date) <= strptime(files[f].date)}

\* A file name is the sequence of its parts, <<"20211012", "_snapshot.json">>
\* for 20211012_snapshot.json.
SNAPSHOT_SUFFIX == "_snapshot.json"

\* line 105: the name of the file get_snapshot writes for a day
FileName(key) == <<ToString(key), SNAPSHOT_SUFFIX>>

\* str.endswith, line 127
EndsWith(name, suffix) == name # <<>> /\ name[Len(name)] = suffix

\* SNAPSHOT_DIR.iterdir(), line 126: every file of ./snapshots by name, the
\* files get_snapshot wrote and the others
Directory(files, others) ==
    LET written == {FileName(k) : k \in DOMAIN files}
    IN [n \in written \cup DOMAIN others |->
           IF n \in written
           THEN files[CHOOSE k \in DOMAIN files : FileName(k) = n]
           ELSE others[n]]

\* line 123: latest_snapshot_file = None
None == <<>>

\* A document that json.load or strptime rejects (lines 129-130: the text is
\* not JSON, or its date is not in DATE_FORMAT) has no date to read; both
\* raise a ValueError.
Malformed == [date |-> <<>>, users |-> EmptyUsers]
Parses(document) == Len(document.date) = 2

\* the outcomes of lines 126-138 over the files named in candidates
ScanOutcomes(dir, candidates) ==
    IF \E n \in candidates : ~Parses(dir[n])
    THEN {Raise("ValueError")}
    ELSE LET found == LatestSnapshotFiles([n \in candidates |-> dir[n]])
         IN IF found = {} THEN {Return(None)}
            ELSE {Return(<<f>>) : f \in found}

\* get_latest_snapshot_on_disk without the test of the file name
get_latest_snapshot_on_disk_any_name(dir) ==
    ScanOutcomes(dir, DOMAIN dir)

\* lines 124-138: what the function may do for the directory dir: return a
\* path (a one-element value), return None or raise.  A directory that does
\* not exist (line 124) is a directory without files.
get_latest_snapshot_on_disk(dir) ==
    ScanOutcomes(dir, {n \in DOMAIN dir : EndsWith(n, SNAPSHOT_SUFFIX)})

\* ---- the directory service the builder queries -----------------------------
\* What the service answers depends on each user's standing: "gone" (not in
\* the directory), "pending" (requested root.osg), "active" (accepted in
\* root.osg and added to the training project) or "project_only" (member of
\* a project without being in root.osg).
UserSeq == <<"jim_halpert", "pam_beesly">>

Standings == [jim_halpert |-> {"gone", "pending", "active", "project_only"},
              pam_beesly |-> {"active"}]

Worlds == {w \in [Users -> {"gone", "pending", "active", "project_only"}] :
              \A u \in Users : w[u] \in Standings[u]}

DirectoryJoinDate == [jim_halpert |-> strftime(1), pam_beesly |-> strftime(2)]

\* the answers of get_group_members, get_users and get_group_list (lines 72,
\* 77, 84, 86) in the world w
ApiAnswers(w) ==
    LET InRootOsg(u) == w[u] \in {"pending", "active"}
        InTraining(u) == w[u] = "active"
        InProject(u) == w[u] = "project_only"
        Listed(u) == w[u] # "gone"
        OsgMembers(seq) ==
            [i \in 1..Len(seq) |-> [user_name |-> seq[i], state |-> w[seq[i]]]]
        ActiveMembers(seq) ==
            [i \in 1..Len(seq) |-> [user_name |-> seq[i], state |-> ACTIVE]]
        Entries(seq) ==
            [i \in 1..Len(seq) |->
                [kind |-> "User", unix_name |-> seq[i],
                 join_date |-> DirectoryJoinDate[seq[i]]]]
    IN [members |->
            (ROOT_OSG :> OsgMembers(SelectSeq(UserSeq, InRootOsg)))
            @@ (TRAINING2021 :> ActiveMembers(SelectSeq(UserSeq, InTraining)))
            @@ (NON_TRAINING :> ActiveMembers(SelectSeq(UserSeq, InProject))),
        users |-> Entries(SelectSeq(UserSeq, Listed)),
        groups |-> <<ROOT_OSG, TRAINING2021, NON_TRAINING>>]

\* ---- the main program (lines 441-527) ------------------------------------------
MaxNow == 3

\* the locals of main and the module state of a process that is not running
NoProcess ==
    /\ prev_snapshot' = NoSnapshot
    /\ curr_snapshot' = NoSnapshot
    /\ training_projects' = {}
    /\ exclude_default' = FreshDefaults
    /\ report' = NoReport

\* the process ends
Exit(outcome) ==
    /\ run' = outcome
    /\ pc' = "exited"
    /\ NoProcess

\* an uncaught exception ends the process; the interpreter exits with 1
Crash(e) == Exit([run EXCEPT !.exc = e, !.exit_status = 1])

\* StartFirstRun exiting with status 0
StartFirstRunExitsZero ==
    /\ pc \in {"idle", "exited"}
    /\ Return(None) \in get_latest_snapshot_on_disk(Directory(disk, foreign))
    /\ Exit([NoRun EXCEPT !.exit_status = 0])
    /\ UNCHANGED <<user_list, call, seen, now, tz, disk, foreign>>

\* StartFirstRun taking and saving the first snapshot before it exits
StartFirstRunSaves ==
    /\ pc \in {"idle", "exited"}
    /\ Return(None) \in get_latest_snapshot_on_disk(Directory(disk, foreign))
    /\ \E w \in Worlds :
           disk' = WriteFile(disk, SnapshotFileKey(now),
                             BuildSnapshot(ApiAnswers(w), now))
    /\ Exit([NoRun EXCEPT !.exit_status = 1])
    /\ UNCHANGED <<user_list, call, seen, now, tz, foreign>>

\* lines 448-452: no snapshot file, sys.exit(1)
StartFirstRun ==
    /\ pc \in {"idle", "exited"}
    /\ Return(None) \in get_latest_snapshot_on_disk(Directory(disk, foreign))
    /\ Exit([NoRun EXCEPT !.exit_status = 1])
    /\ UNCHANGED <<user_list, call, seen, now, tz, disk, foreign>>

\* lines 448-455: the latest snapshot file is loaded
StartWithPrior ==
    /\ pc \in {"idle", "exited"}
    /\ \E latest \in get_latest_snapshot_on_disk(Directory(disk, foreign)) :
           /\ latest.exc = "none"
           /\ latest.val # None
           /\ prev_snapshot' = Directory(disk, foreign)[latest.val[1]]
    /\ run' = [NoRun EXCEPT !.had_prior = TRUE]
    /\ pc' = "loaded"
    /\ UNCHANGED <<curr_snapshot, user_list, training_projects,
                   exclude_default, call, seen, now, tz, disk, foreign,
                   report>>

\* get_snapshot (lines 66-113) returns snapshot: it is built from the
\* directory's answers in the world w and stamped with the UTC time of line
\* 97; the file is named by the local day of the second clock reading t2, line
\* 105, and written whatever `save` is.
GetSnapshot(save, w, t2, snapshot) ==
    /\ snapshot = BuildSnapshot(ApiAnswers(w), now)
    /\ disk' = WriteFile(disk, SnapshotFileKey(t2), snapshot)
    /\ now' = t2

ClockReadings == {t \in {now, now + 1} : t <= MaxNow}

\* line 457
RunGetSnapshot ==
    /\ pc = "loaded"
    /\ \E w \in Worlds, t2 \in ClockReadings :
           GetSnapshot(TRUE, w, t2, curr_snapshot')
    /\ run' = [run EXCEPT !.saved = TRUE]
    /\ pc' = "built"
    /\ UNCHANGED <<prev_snapshot, user_list, training_projects,
                   exclude_default, call, seen, tz, foreign, report>>

\* line 457 when get_snapshot raises (the directory service or the token file
\* fails, lines 67-86): nothing is written and nothing catches it
RunGetSnapshotFails ==
    /\ pc = "loaded"
    /\ Crash("ApiError")
    /\ UNCHANGED <<user_list, call, seen, now, tz, disk, foreign>>

\* time passes between runs
Tick ==
    /\ pc \in {"idle", "exited"}
    /\ now < MaxNow
    /\ now' = now + 1
    /\ UNCHANGED <<prev_snapshot, curr_snapshot, user_list, training_projects,
                   exclude_default, call, seen, pc, tz, disk, foreign, run,
                   report>>

\* training_groups.json as it is installed
TrainingGroupsFile == {TRAINING2021}

\* get_training_groups (lines 166-183), called at line 463
RunGetTrainingGroups ==
    /\ pc = "built"
    /\ training_projects' = TrainingGroupsFile
    /\ pc' = "trained"
    /\ UNCHANGED <<prev_snapshot, curr_snapshot, user_list, exclude_default,
                   call, seen, now, tz, disk, foreign, run, report>>

\* lines 185-192: the file is missing or is not JSON; the error is logged and
\* raised again
RunGetTrainingGroupsFails ==
    /\ pc = "built"
    /\ \E e \in {"FileNotFoundError", "JSONDecodeError"} : Crash(e)
    /\ UNCHANGED <<user_list, call, seen, now, tz, disk, foreign>>

\* The six classifier calls of lines 466-499, in the order of main.  r is the
\* report so far, d the default exclude objects; the result is [exc, report,
\* exclude_default] at the first exception or after the sixth call.
Classify(prev, curr, training) ==
    LET nar == get_new_account_requests(prev, curr)
        nar_tr == get_new_account_requests_in_training_group(
                      nar.val, curr, training)
        nar_ntr == get_new_account_requests_in_non_training_group(
                       nar.val, curr, training, exclude_default.requests)
        naa == get_new_accounts_accepted(prev, curr).out
        naa_tr == get_new_accounts_accepted_in_training_group(
                      naa.val, curr, training)
        naa_ntr == get_new_accounts_accepted_in_non_training_group(
                       naa.val, curr, training, exclude_default.accepted)
        calls == <<nar, nar_tr, nar_ntr, naa, naa_tr, naa_ntr>>
        failed == {i \in 1..6 : calls[i].exc # "none"}
    IN [exc |-> IF failed = {} THEN "none"
                ELSE calls[CHOOSE i \in failed : \A j \in failed : i <= j].exc,
        report |-> [nar |-> nar.val, nar_tr |-> nar_tr.val,
                    nar_ntr |-> nar_ntr.val, naa |-> naa.val,
                    naa_tr |-> naa_tr.val, naa_ntr |-> naa_ntr.val],
        exclude_default |->
            [requests |-> ExcludeUpdate(exclude_default.requests, training),
             accepted |-> ExcludeUpdate(exclude_default.accepted, training)]]

\* lines 466-499 without an exception
RunClassify ==
    /\ pc = "trained"
    /\ LET c == Classify(prev_snapshot, curr_snapshot, training_projects)
       IN /\ c.exc = "none"
          /\ report' = c.report
          /\ exclude_default' = c.exclude_default
    /\ pc' = "classified"
    /\ UNCHANGED <<prev_snapshot, curr_snapshot, user_list, training_projects,
                   call, seen, now, tz, disk, foreign, run>>

\* lines 466-499 when a classifier call raises: nothing catches it
RunClassifyFails ==
    /\ pc = "trained"
    /\ LET c == Classify(prev_snapshot, curr_snapshot, training_projects)
       IN /\ c.exc # "none"
          /\ Crash(c.exc)
    /\ UNCHANGED <<user_list, call, seen, now, tz, disk, foreign>>

\* lines 501-527: the report is formatted and sent, and the program ends
RunSendReport ==
    /\ pc = "classified"
    /\ Exit([run EXCEPT !.sent = TRUE, !.exit_status = 0])
    /\ UNCHANGED <<user_list, call, seen, now, tz, disk, foreign>>

\* get_snapshot(save) called on its own, not from main, as is done to take
\* the first snapshot; the caller drops the returned snapshot
GetSnapshotCall(save) ==
    /\ pc \in {"idle", "exited"}
    /\ \E w \in Worlds, t2 \in ClockReadings :
           GetSnapshot(save, w, t2, BuildSnapshot(ApiAnswers(w), now))
    /\ pc' = "idle"
    /\ run' = NoRun
    /\ UNCHANGED <<prev_snapshot, curr_snapshot, user_list, training_projects,
                   exclude_default, call, seen, tz, foreign, report>>

\* save: bool = True (line 33), and a caller may pass either value
CallGetSnapshot == \E save \in BOOLEAN : GetSnapshotCall(save)

\* a directory that holds, from the start, the renamed copy of a snapshot
\* taken at the end of the period
BackupCopy ==
    <<"old", SNAPSHOT_SUFFIX, ".bak">> :>
        [date |-> strftime(MaxNow), users |-> EmptyUsers]

InitRun ==
    /\ prev_snapshot = NoSnapshot
    /\ curr_snapshot = NoSnapshot
    /\ user_list = <<>>
    /\ training_projects = {}
    /\ exclude_default = FreshDefaults
    /\ call = NoCall
    /\ seen = NoCall
    /\ pc = "idle"
    /\ now = 0
    /\ tz \in {-1, 0}
    /\ disk = <<>>
    /\ foreign \in {<<>>, BackupCopy}
    /\ run = NoRun
    /\ report = NoReport

NextRun ==
    \/ StartFirstRun
    \/ StartWithPrior
    \/ RunGetSnapshot
    \/ RunGetSnapshotFails
    \/ RunGetTrainingGroups
    \/ RunGetTrainingGroupsFails
    \/ RunClassify
    \/ RunClassifyFails
    \/ RunSendReport
    \/ CallGetSnapshot
    \/ Tick

SpecRun == InitRun /\ [][NextRun]_vars

\* ---- SpecStore: get_latest_snapshot_on_disk on the directories it may find --
\* the functions from a part of Names to Docs
FilesOf(Names, Docs) == UNION {[N -> Docs] : N \in SUBSET Names}

\* what json.load reads from a snapshot file (line 129); only "date" is used
SnapshotDocs == {[date |-> d, users |-> EmptyUsers] : d \in DateStrings}

\* files that get_snapshot does not write: notes, a snapshot copied under
\* another name that still ends in _snapshot.json, and a renamed backup
ForeignNames ==
    {<<"notes", ".txt">>, <<"copy", SNAPSHOT_SUFFIX>>,
     <<"old", SNAPSHOT_SUFFIX, ".bak">>}

\* their documents are the oldest or the newest of the period, or malformed
ForeignDocs ==
    {doc \in SnapshotDocs :
        strptime(doc.date) \in {0, (MaxDay + 1) * TicksPerDay - 1}}
    \cup {Malformed}

\* get_latest_snapshot_on_disk() called on the directory as it is
CallGetLatestSnapshotOnDisk ==
    /\ \E out \in get_latest_snapshot_on_disk(Directory(disk, foreign)) :
           call' = [op |-> "get_latest_snapshot_on_disk", out |-> out]
    /\ UNCHANGED <<prev_snapshot, curr_snapshot, user_list, training_projects,
                   exclude_default, seen, runvars>>

InitStore ==
    /\ prev_snapshot = NoSnapshot
    /\ curr_snapshot = NoSnapshot
    /\ user_list = <<>>
    /\ training_projects = {}
    /\ exclude_default = FreshDefaults
    /\ call = NoCall
    /\ seen = NoCall
    /\ pc = "idle"
    /\ now = 0
    /\ tz = 0
    /\ disk \in FilesOf(0..MaxDay, SnapshotDocs)
    /\ foreign \in FilesOf(ForeignNames, ForeignDocs)
    /\ run = NoRun
    /\ report = NoReport

NextStore == CallGetLatestSnapshotOnDisk

SpecStore == InitStore /\ [][NextStore]_vars

\* ---- SpecBuild: get_snapshot on the answers the directory may give ----------
\* the lists get_group_members may return over the users of seq: each user
\* once at most, in one of States
RECURSIVE MemberLists(_, _)
MemberLists(seq, States) ==
    IF seq = <<>> THEN {<<>>}
    ELSE LET rest == MemberLists(Tail(seq), States)
         IN rest \cup {<<[user_name |-> Head(seq), state |-> st]>> \o r :
                          st \in States, r \in rest}

\* the lists get_users may return over the names of seq: each name once at
\* most, as an entry of one of Kinds
RECURSIVE DirectoryLists(_, _)
DirectoryLists(seq, Kinds) ==
    IF seq = <<>> THEN {<<>>}
    ELSE LET rest == DirectoryLists(Tail(seq), Kinds)
         IN rest \cup {<<[kind |-> k, unix_name |-> Head(seq),
                           join_date |-> DirectoryJoinDate[Head(seq)]]>> \o r :
                          k \in Kinds, r \in rest}

\* the answers of get_group_list
GroupLists ==
    {<<>>, <<ROOT_OSG>>, <<TRAINING2021>>, <<ROOT_OSG, TRAINING2021>>,
     <<ROOT_OSG, TRAINING2021, NON_TRAINING>>}

\* the answers of get_group_members, get_users and get_group_list (lines 72,
\* 77, 84, 86)
ApiFamily ==
    {[members |-> (ROOT_OSG :> osg) @@ (TRAINING2021 :> tr)
                  @@ (NON_TRAINING :> ntr),
      users |-> us, groups |-> gs] :
        osg \in MemberLists(UserSeq, {PENDING, ACTIVE}),
        tr \in MemberLists(UserSeq, {PENDING, ACTIVE}),
        ntr \in MemberLists(UserSeq, {ACTIVE}),
        us \in DirectoryLists(UserSeq, {"User", "Group"}),
        gs \in GroupLists}

\* get_snapshot (lines 66-113) called once on the answers api; the caller keeps
\* the answers and the returned snapshot
GetSnapshotFromAnswers ==
    /\ call.op = "none"
    /\ \E api \in ApiFamily, t2 \in ClockReadings :
           LET snapshot == BuildSnapshot(api, now)
           IN /\ call' = [op |-> "get_snapshot", api |-> api,
                          out |-> Return(snapshot)]
              /\ disk' = WriteFile(disk, SnapshotFileKey(t2), snapshot)
              /\ now' = t2
    /\ UNCHANGED <<prev_snapshot, curr_snapshot, user_list, training_projects,
                   exclude_default, seen, pc, tz, foreign, run, report>>

InitBuild ==
    /\ prev_snapshot = NoSnapshot
    /\ curr_snapshot = NoSnapshot
    /\ user_list = <<>>
    /\ training_projects = {}
    /\ exclude_default = FreshDefaults
    /\ call = NoCall
    /\ seen = NoCall
    /\ RunIdle

NextBuild == GetSnapshotFromAnswers

SpecBuild == InitBuild /\ [][NextBuild]_vars

\* ---- SpecCalls: sequences of partition calls with changing training sets ---
CallTrainingSets == {{}, {TRAINING2021}}

CallExcludeChoices ==
    {[explicit |-> FALSE, set |-> {}], [explicit |-> TRUE, set |-> ExcludeDefault]}

\* a caller keeps the outcome of the call it just made
Remember ==
    /\ call.op # "none"
    /\ seen' = call
    /\ UNCHANGED <<prev_snapshot, curr_snapshot, user_list, training_projects,
                   exclude_default, call, runvars>>

InitCalls ==
    /\ prev_snapshot = NoSnapshot
    /\ curr_snapshot \in
           {[date |-> strftime(1),
             users |-> [order |-> <<"jim_halpert", "pam_beesly">>,
                        info |-> ("jim_halpert" :>
                                      UserRecord((ROOT_OSG :> ACTIVE) @@ g))
                                  @@ ("pam_beesly" :>
                                      UserRecord((ROOT_OSG :> ACTIVE)
                                                 @@ (NON_TRAINING :> ACTIVE)))]] :
               g \in GroupMapsInto({TRAINING2021, NON_TRAINING},
                                   {ACTIVE, PENDING, DISABLED})}
    /\ user_list \in UserLists
    /\ training_projects = {}
    /\ exclude_default = FreshDefaults
    /\ call = NoCall
    /\ seen = NoCall
    /\ RunIdle

NextCalls ==
    \/ NewAccountRequests
    \/ NewAccountsAccepted
    \/ \E t \in CallTrainingSets : NewAccountRequestsInTrainingGroup(t)
    \/ \E t \in CallTrainingSets : NewAccountsAcceptedInTrainingGroup(t)
    \/ \E t \in CallTrainingSets, e \in CallExcludeChoices :
           NewAccountRequestsInNonTrainingGroup(t, e)
    \/ \E t \in CallTrainingSets, e \in CallExcludeChoices :
           NewAccountsAcceptedInNonTrainingGroup(t, e)
    \/ Remember

SpecCalls == InitCalls /\ [][NextCalls]_vars

\* ---- properties ----------------------------------------------------------------
Elements(seq) == {seq[i] : i \in DOMAIN seq}

\* the order of two date strings as written: by day, then by time of day
DateBefore(a, b) == a[1] < b[1] \/ (a[1] = b[1] /\ a[2] < b[2])

PrevUsers == DOMAIN prev_snapshot.users.info
CurrUsers == DOMAIN curr_snapshot.users.info
PrevGroups(u) == prev_snapshot.users.info[u]["groups"]
CurrGroups(u) == curr_snapshot.users.info[u]["groups"]

\* C1: get_new_account_requests returns a user if and only if the user is a
\* key of curr.users, has a join_date, and prev.date < join_date <= curr.date:
\* a join_date equal to prev.date is out, one equal to curr.date is in, and a
\* user without join_date is left out without any failure.
C1_NewAccountRequests ==
    call.op = "requests" =>
        /\ call.out.exc = "none"
        /\ \A u \in Users :
               u \in Elements(call.out.val) <=>
                   /\ u \in CurrUsers
                   /\ "join_date" \in DOMAIN curr_snapshot.users.info[u]
                   /\ DateBefore(prev_snapshot.date,
                                 curr_snapshot.users.info[u]["join_date"])
                   /\ ~DateBefore(curr_snapshot.date,
                                  curr_snapshot.users.info[u]["join_date"])

\* a call where one user joined exactly at curr.date and is returned while
\* another joined exactly at prev.date and is not
C1_Witness ==
    /\ call.op = "requests"
    /\ \E u, v \in CurrUsers :
           /\ "join_date" \in DOMAIN curr_snapshot.users.info[u]
           /\ "join_date" \in DOMAIN curr_snapshot.users.info[v]
           /\ curr_snapshot.users.info[u]["join_date"] = curr_snapshot.date
           /\ curr_snapshot.users.info[v]["join_date"] = prev_snapshot.date
           /\ u \in Elements(call.out.val)
           /\ v \notin Elements(call.out.val)

\* root.osg is pending in prev and active in curr
PendingToActive(u) ==
    /\ ROOT_OSG \in DOMAIN PrevGroups(u)
    /\ PrevGroups(u)[ROOT_OSG] = PENDING
    /\ CurrGroups(u)[ROOT_OSG] = ACTIVE

EveryPrevUserInCurr ==
    \A u \in PrevUsers : HasRootOsgIn(curr_snapshot.users, u)

\* C2: when every user of prev is in curr with a root.osg entry,
\* get_new_accounts_accepted returns exactly the users whose root.osg state
\* is pending in prev and active in curr, in the key order of prev.users.
C2_NewAccountsAccepted ==
    (call.op = "accepted" /\ EveryPrevUserInCurr) =>
        call.out = Return(SelectSeq(prev_snapshot.users.order, PendingToActive))

\* a call on two users of prev of which exactly one was accepted
C2_Witness ==
    /\ call.op = "accepted"
    /\ EveryPrevUserInCurr
    /\ Len(prev_snapshot.users.order) = 2
    /\ Len(call.out.val) = 1

\* the pair of a training and a non-training partition of the same function
\* family, the non-training one starting from {root, root.osg}, both called
\* with the same training set on the user list and snapshot of the state
SamePartitionPair ==
    /\ <<seen.op, call.op>> \in
           {<<"requests_training", "requests_non_training">>,
            <<"accepted_training", "accepted_non_training">>}
    /\ call.exclude = ExcludeDefault
    /\ seen.training = call.training

InBothPartitions ==
    Elements(seen.out.val) \cap Elements(call.out.val)

\* an active or pending membership in a training group and another in a group
\* that is neither a training group nor root / root.osg
HasBothKinds(u, training) ==
    /\ \E g \in DOMAIN CurrGroups(u) :
           g \in training /\ CurrGroups(u)[g] \in {ACTIVE, PENDING}
    /\ \E g \in DOMAIN CurrGroups(u) :
           /\ g \notin training \cup {ROOT, ROOT_OSG}
           /\ CurrGroups(u)[g] \in {ACTIVE, PENDING}

\* C3 as stated: the training partition and the non-training partition of the
\* same user list have no user in common.
C3_PartitionsDisjoint ==
    SamePartitionPair => InBothPartitions = {}

\* C3 as amended: the users the two partitions have in common are exactly the
\* users of the list with an active or pending membership both in a training
\* group and in a group that is neither a training group nor root / root.osg.
C3_CommonUsersHaveBothKinds ==
    SamePartitionPair =>
        InBothPartitions =
            {u \in Elements(user_list) : HasBothKinds(u, call.training)}

\* both partitions are non-empty and they share no user
C3_Witness ==
    /\ SamePartitionPair
    /\ seen.out.val # <<>>
    /\ call.out.val # <<>>
    /\ InBothPartitions = {}

\* C4: the classifier operations are pure functions of their arguments: two
\* calls of the same non-training partition with the same snapshots, user
\* list and training set, and no explicit exclude set, return the same list
\* whatever calls were made before or between them.
C4_SameArgumentsSameResult ==
    (/\ seen.op = call.op
     /\ call.op \in {"requests_non_training", "accepted_non_training"}
     /\ ~seen.explicit
     /\ ~call.explicit
     /\ seen.training = call.training) => seen.out = call.out

PendingAndGone(u) ==
    /\ ROOT_OSG \in DOMAIN PrevGroups(u)
    /\ PrevGroups(u)[ROOT_OSG] = PENDING
    /\ u \notin CurrUsers

NonTrainingExpected(u) ==
    \E g \in DOMAIN CurrGroups(u) :
        /\ g \notin call.exclude
        /\ g \notin call.training
        /\ CurrGroups(u)[g] \notin {ADMIN, DISABLED, NONMEMBER}
        /\ CurrGroups(u)[g] \in {ACTIVE, PENDING}

\* C6: with a caller-supplied exclude set, the non-training partition returns
\* an entry of the user list if and only if that user has a group in curr
\* that is neither in the exclude set nor in the training set and whose state
\* is active or pending, in the order of the user list.
C6_NonTrainingPartition ==
    (call.op \in {"requests_non_training", "accepted_non_training"}
         /\ call.explicit) =>
        call.out = Return(SelectSeq(user_list, NonTrainingExpected))

\* a call that returns one user and leaves out another whose only group
\* outside the exclude and training sets has state admin, disabled or
\* nonmember
C6_Witness ==
    /\ call.op = "accepted_non_training"
    /\ call.explicit
    /\ call.out.val # <<>>
    /\ \E u \in Elements(user_list) :
           /\ u \notin Elements(call.out.val)
           /\ \E g \in DOMAIN CurrGroups(u) :
                  /\ g \notin call.exclude \cup call.training
                  /\ CurrGroups(u)[g] \in {ADMIN, DISABLED, NONMEMBER}

TrainingExpected(u) ==
    \E g \in DOMAIN CurrGroups(u) :
        g \in call.training /\ CurrGroups(u)[g] \in {ACTIVE, PENDING}

\* C7: the training partition returns an entry of the user list if and only
\* if that user has a group in curr that is in the training set and whose
\* state is active or pending; an entry is returned once however many
\* training groups match, in the order of the user list.
C7_TrainingPartition ==
    call.op \in {"requests_training", "accepted_training"} =>
        call.out = Return(SelectSeq(user_list, TrainingExpected))

\* a user with two matching training groups is returned once, and another
\* entry of the list is left out
C7_Witness ==
    /\ call.op = "accepted_training"
    /\ Len(call.out.val) = 1
    /\ Len(user_list) = 2
    /\ \E u \in Elements(call.out.val) :
           \E g, h \in call.training :
               /\ g # h
               /\ g \in DOMAIN CurrGroups(u)
               /\ h \in DOMAIN CurrGroups(u)
               /\ CurrGroups(u)[g] \in {ACTIVE, PENDING}
               /\ CurrGroups(u)[h] \in {ACTIVE, PENDING}

\* prev without the user u
WithoutUser(snapshot, u) ==
    LET NotU(x) == x # u
    IN [date |-> snapshot.date,
        users |-> [order |-> SelectSeq(snapshot.users.order, NotU),
                   info |-> [x \in DOMAIN snapshot.users.info \ {u} |->
                                 snapshot.users.info[x]]]]

\* C8: in get_new_accounts_accepted a user of prev without a root.osg key is
\* skipped with a warning: the user is not in the result, the call ends as it
\* would with that user removed from prev, so the user causes no failure and
\* the other users are classified as before, and a call that returns has
\* logged a warning for the user.
C8_UserWithoutRootOsgSkipped ==
    call.op = "accepted" =>
        \A u \in PrevUsers :
            ROOT_OSG \notin DOMAIN PrevGroups(u) =>
                /\ u \notin Elements(call.out.val)
                /\ call.out =
                       get_new_accounts_accepted(
                           WithoutUser(prev_snapshot, u), curr_snapshot).out
                /\ call.out.exc = "none" => u \in Elements(call.warned)

\* the first user of prev has no root.osg and the second one is accepted
C8_Witness ==
    /\ call.op = "accepted"
    /\ Len(prev_snapshot.users.order) = 2
    /\ ROOT_OSG \notin DOMAIN PrevGroups(prev_snapshot.users.order[1])
    /\ call.out = Return(<<prev_snapshot.users.order[2]>>)
    /\ call.warned = <<prev_snapshot.users.order[1]>>

\* C9 as stated: a run exits with status 1 when no prior snapshot exists at
\* its start, and in every other case it builds and saves the current
\* snapshot, classifies and sends the report.
C9_RunCompletes ==
    pc = "exited" =>
        IF run.had_prior THEN run.saved /\ run.sent
        ELSE run.exit_status = 1

\* C9 as amended: a run exits with status 1, without saving or sending, when
\* no prior snapshot exists at its start; in every other case it goes on to
\* build and save the current snapshot, classify and send the report, and it
\* sends the report if and only if no step before that raises: an exception
\* in get_snapshot, get_training_groups or a classification step ends the
\* run with status 1 and no report, and only one in get_snapshot leaves the
\* snapshot unsaved.
C9_RunCompletesUnlessRaised ==
    /\ pc = "exited" =>
           /\ run.had_prior <=> DOMAIN disk # {}
           /\ ~run.had_prior =>
                  /\ run.exit_status = 1
                  /\ run.exc = "none"
                  /\ ~run.saved
                  /\ ~run.sent
           /\ run.had_prior =>
                  /\ run.saved <=> run.exc # "ApiError"
                  /\ run.sent <=> run.exc = "none"
                  /\ run.exit_status = IF run.sent THEN 0 ELSE 1
    /\ pc \in {"built", "trained", "classified"} =>
           run.had_prior /\ run.saved /\ ~run.sent /\ run.exc = "none"

\* a run that found a prior snapshot, saved the current one and died of a
\* KeyError without sending
C9_Witness ==
    /\ pc = "exited"
    /\ run.had_prior
    /\ run.saved
    /\ run.exc = "KeyError"
    /\ ~run.sent

\* C10: the snapshot directory holds at most one snapshot file per calendar
\* day, each file keyed by the capture date of the snapshot it holds.
C10_FileKeyedByCaptureDate ==
    \A k \in DOMAIN disk : disk[k].date[1] = k

\* the files of ./snapshots whose name ends in _snapshot.json
MatchingFiles ==
    {n \in DOMAIN Directory(disk, foreign) : n[Len(n)] = "_snapshot.json"}

\* the returned value is a matching file of the greatest date, or None when
\* no file matches
ReturnsLatestMatching ==
    LET dir == Directory(disk, foreign)
        val == call.out.val
    IN /\ call.out.exc = "none"
       /\ val = <<>> <=> MatchingFiles = {}
       /\ val # <<>> =>
              /\ val[1] \in MatchingFiles
              /\ \A g \in MatchingFiles :
                     ~DateBefore(dir[val[1]].date, dir[g].date)

\* C11 as stated: for every content of the snapshot directory,
\* get_latest_snapshot_on_disk returns a file whose name ends in
\* _snapshot.json and whose date is the greatest of all the files so named,
\* and it returns None exactly when no file is so named.
C11_LatestMatchingFile ==
    call.op = "get_latest_snapshot_on_disk" => ReturnsLatestMatching

\* C11 as amended: when every file whose name ends in _snapshot.json holds a
\* JSON document with a date in DATE_FORMAT, the function returns such a file
\* of the greatest date, and None exactly when no file is so named; when one
\* of them does not, the function raises and returns nothing.
C11_LatestWellFormedFile ==
    call.op = "get_latest_snapshot_on_disk" =>
        IF \A n \in MatchingFiles : Directory(disk, foreign)[n].date # <<>>
        THEN ReturnsLatestMatching
        ELSE call.out.exc = "ValueError"

\* the function returned the newer of two snapshot files while a file of
\* another name held a still newer date
C11_Witness ==
    /\ call.op = "get_latest_snapshot_on_disk"
    /\ call.out.exc = "none"
    /\ call.out.val # <<>>
    /\ LET dir == Directory(disk, foreign)
           returned == call.out.val[1]
       IN /\ \E g \in MatchingFiles :
                 DateBefore(dir[g].date, dir[returned].date)
          /\ \E n \in DOMAIN dir \ MatchingFiles :
                 /\ dir[n].date # <<>>
                 /\ DateBefore(dir[returned].date, dir[n].date)

\* C12: get_snapshot called with save=False writes no snapshot file: the
\* snapshot directory is left as it was.
C12_SaveFalseWritesNothing ==
    [][GetSnapshotCall(FALSE) => disk' = disk /\ foreign' = foreign]_vars

\* the users the root.osg fetch of line 72 returned
OsgMembers == {m.user_name : m \in Elements(call.api.members[ROOT_OSG])}

\* the names that have a directory entry of kind "user", in either case
UserEntries ==
    {e.unix_name : e \in {x \in Elements(call.api.users) :
                              x.kind \in {"user", "User"}}}

\* the users returned as members of a listed group
ListedMembers ==
    {m.user_name : m \in UNION {Elements(call.api.members[g]) :
                                   g \in Elements(call.api.groups)}}

\* C13: in every snapshot the builder produces, a user record has a join_date
\* if and only if the user was returned as a member of root.osg and has a
\* directory entry of kind "user"; every member returned for a listed group is
\* in users with groups[group_name] equal to the returned state; and a member
\* of a listed group that the root.osg fetch did not return is in users with
\* a groups map and neither osg_state nor join_date.
C13_BuilderRecords ==
    call.op = "get_snapshot" =>
        LET info == call.out.val.users.info
        IN /\ \A u \in Users :
                  (u \in DOMAIN info /\ "join_date" \in DOMAIN info[u])
                      <=> (u \in OsgMembers /\ u \in UserEntries)
           /\ \A g \in Elements(call.api.groups) :
                  \A m \in Elements(call.api.members[g]) :
                      /\ m.user_name \in DOMAIN info
                      /\ "groups" \in DOMAIN info[m.user_name]
                      /\ g \in DOMAIN info[m.user_name]["groups"]
                      /\ info[m.user_name]["groups"][g] = m.state
           /\ \A u \in ListedMembers \ OsgMembers :
                  u \in DOMAIN info /\ DOMAIN info[u] = {"groups"}

\* a snapshot with a root.osg member that has a join_date, beside a member of
\* the training project alone that the directory lists as a user and that has
\* only a groups map
C13_Witness ==
    /\ call.op = "get_snapshot"
    /\ LET info == call.out.val.users.info
       IN /\ \E u \in OsgMembers : "join_date" \in DOMAIN info[u]
          /\ \E u \in (ListedMembers \cap UserEntries) \ OsgMembers :
                 DOMAIN info[u] = {"groups"}

\* C14: a run that finds no prior snapshot exits before building or saving a
\* snapshot: while ./snapshots holds no snapshot file, every step of the main
\* program (every step but a call of get_snapshot from outside it) leaves the
\* directory as it is, ends a run with status 1 if it ends one, and reaches
\* neither the build, nor classification, nor the report.  So, from an empty
\* directory, the directory stays empty after any number of runs.
C14_FirstRunsLeaveNoSnapshot ==
    [][(MatchingFiles = {} /\ ~CallGetSnapshot) =>
           /\ disk' = disk
           /\ foreign' = foreign
           /\ pc' \in {"idle", "exited"}
           /\ pc' = "exited" => run'.exit_status = 1
           /\ ~run'.had_prior
           /\ ~run'.saved
           /\ ~run'.sent
           /\ report' = NoReport]_vars

\* a run found the directory empty and exited with status 1; time has passed
\* since, and the directory is still empty
C14_Witness ==
    /\ pc = "exited"
    /\ run.exit_status = 1
    /\ ~run.had_prior
    /\ disk = <<>>
    /\ foreign = <<>>
    /\ now > 1

====
